---- MODULE Spec2Model ----
(***************************************************************************)
(* Job orchestration engine of the sitewide accessibility audit            *)
(* (src/audit.js): the ConcurrencyLimiter, the retrying Job Runner         *)
(* (runAccessibilityCheck), the error classifier (isRetryableError), the   *)
(* batch coordinator (processUrlBatch and the loop of main), and the       *)
(* browser-instance tracker with cleanup() and the signal handlers.        *)
(*                                                                         *)
(* One step of the model is one macrotask of the Node.js event loop: the   *)
(* settlement of an external promise (checker, timer, browser.close,       *)
(* writeFile) or the arrival of a signal, together with every microtask    *)
(* continuation it triggers, up to the next await on an external promise.  *)
(*                                                                         *)
(* Spec and LiveSpec run the jobs of a collected url list.  LimiterSpec    *)
(* drives the ConcurrencyLimiter with work functions that may reject,      *)
(* SliceSpec runs the slicing of main's batch loop on longer lists, and    *)
(* CollectSpec runs the url collector (fetchXML, getAllUrls).              *)
(***************************************************************************)
EXTENDS Integers, Sequences, FiniteSets, TLC

\* ------------------------------------------------------------------ bounds
MaxUrls == 3
MaxLimit == 2
MaxBatch == 3
MaxRetriesBound == 2
MaxSignals == 1
LiveMaxUrls == 2
MaxUnits == 4
MaxSliceUrls == 8
MaxSliceBatch == 4
MaxChildren == 2
MaxLocs == 3
MaxLocId == 5

VARIABLES
  CONFIG,            \* the configuration snapshot read at startup
  urls,              \* the list returned by getAllUrls, discovery order
  running,           \* limiter.running
  queue,             \* limiter.queue (the url of each queued unit)
  job,               \* per url: position of its unit / runAccessibilityCheck
  settled,           \* per url: value the promise of limiter.run resolved to
  results,           \* main's run-wide results array
  batchIndex,        \* main's loop variable i
  mainPc,            \* position of main
  browserInstances,  \* the [[SetData]] list of the browserInstances Set
  registered,        \* history: handles ever added to browserInstances
  closeCalls,        \* history: number of browser.close() calls per handle
  cleanups,          \* the cleanup() invocations, in invocation order; idx is
                     \* the iterator position, raisedAt (history) the position
                     \* of the first handle whose close() rejected, else 0,
                     \* size (history) the length of [[SetData]] at the call
  reported,          \* the results handed to generateHTMLReport
  exitStatus,        \* <<code>> of process.exit(code), NoExit while alive
  signals,           \* number of signals received
  attemptLog,        \* history: per url, how each checker invocation ended
  completed,         \* history: the urls in the order their units returned
  slices,            \* history: the batch of each iteration of main's loop
  pauses,            \* history: the delays main awaited between batches
  sitemapUrl,        \* the command-line argument and what processSitemapUrl
                     \* made of it
  collector          \* the getAllUrls call: its position, fetchXML's loop
                     \* variable, indexData, sitemaps, the allUrls Set, the
                     \* value fetchXML returned per document (history), result

vars == <<CONFIG, urls, running, queue, job, settled, results, batchIndex,
          mainPc, browserInstances, registered, closeCalls, cleanups,
          reported, exitStatus, signals, attemptLog, completed,
          slices, pauses, collector, sitemapUrl>>

\* exitStatus is <<>> while the process is alive and <<code>> once
\* process.exit(code) was called.
NoExit == <<>>

Min(a, b) == IF a < b THEN a ELSE b

\* ------------------------------------------------- error values, classifier
\* Values the promise of pa11y() can reject with.  A message is the list
\* of its characters; NullValue is a rejection with null/undefined.
ErrorValues == {"NetErrFailed", "InvalidSelector", "NullValue"}

ErrIsNullish(e) == e = "NullValue"

\* "net::ERR_FAILED" and "invalid selector"
ErrMessage(e) ==
  IF e = "NetErrFailed"
  THEN <<"n","e","t",":",":","E","R","R","_","F","A","I","L","E","D">>
  ELSE <<"i","n","v","a","l","i","d"," ","s","e","l","e","c","t","o","r">>

UpperCase == <<"A","B","C","D","E","F","G","H","I","J","K","L","M","N","O","P","Q","R","S","T","U","V","W","X","Y","Z">>
LowerCase == <<"a","b","c","d","e","f","g","h","i","j","k","l","m","n","o","p","q","r","s","t","u","v","w","x","y","z">>

toLowerCaseIdentity(msg) == msg

toLowerCase(msg) ==
  [k \in 1..Len(msg) |->
     IF \E j \in 1..26 : UpperCase[j] = msg[k]
     THEN LowerCase[CHOOSE j \in 1..26 : UpperCase[j] = msg[k]]
     ELSE msg[k]]

includes(msg, pat) ==
  \E k \in 0..(Len(msg) - Len(pat)) :
     \A j \in 1..Len(pat) : msg[k + j] = pat[j]

retryablePatterns ==
  { <<"t","i","m","e","o","u","t">>,
    <<"t","i","m","e","d"," ","o","u","t">>,
    <<"n","a","v","i","g","a","t","i","o","n"," ","t","i","m","e","o","u","t">>,
    <<"n","e","t",":",":","e","r","r">>,
    <<"e","c","o","n","n","r","e","s","e","t">>,
    <<"e","c","o","n","n","r","e","f","u","s","e","d">>,
    <<"s","o","c","k","e","t"," ","h","a","n","g"," ","u","p">>,
    <<"e","m","p","t","y"," ","r","e","s","p","o","n","s","e">>,
    <<"p","r","o","t","o","c","o","l"," ","e","r","r","o","r">>,
    <<"t","a","r","g","e","t"," ","c","l","o","s","e","d">>,
    <<"s","e","s","s","i","o","n"," ","c","l","o","s","e","d">>,
    <<"p","a","g","e"," ","c","r","a","s","h","e","d">>,
    <<"a","b","n","o","r","m","a","l">>,
    <<"f","a","i","l","e","d"," ","a","c","t","i","o","n">>,
    <<"w","a","i","t"," ","f","o","r">> }

\* error.message on null/undefined throws a TypeError out of the classifier.
isRetryableErrorThrows(e) == ErrIsNullish(e)

isRetryableError(e) ==
  \E pat \in retryablePatterns : includes(toLowerCase(ErrMessage(e)), pat)

\* ------------------------------------------------------------ state record
Pending == [status |-> "pending"]
Empty == [url |-> 0, attempt |-> 0]

St == [running |-> running, queue |-> queue, job |-> job, settled |-> settled,
       results |-> results, batchIndex |-> batchIndex, mainPc |-> mainPc,
       browserInstances |-> browserInstances,
       registered |-> registered, closeCalls |-> closeCalls,
       cleanups |-> cleanups, reported |-> reported,
       exitStatus |-> exitStatus, signals |-> signals,
       attemptLog |-> attemptLog, completed |-> completed,
       slices |-> slices, pauses |-> pauses]

\* Bind(v, F) is F(v) with v evaluated once.
Bind(v, F(_)) == CHOOSE r \in {F(t) : t \in {v}} : TRUE

Becomes(post) == \E s \in {post} :
  /\ running' = s.running
  /\ queue' = s.queue
  /\ job' = s.job
  /\ settled' = s.settled
  /\ results' = s.results
  /\ batchIndex' = s.batchIndex
  /\ mainPc' = s.mainPc
  /\ browserInstances' = s.browserInstances
  /\ registered' = s.registered
  /\ closeCalls' = s.closeCalls
  /\ cleanups' = s.cleanups
  /\ reported' = s.reported
  /\ exitStatus' = s.exitStatus
  /\ signals' = s.signals
  /\ attemptLog' = s.attemptLog
  /\ completed' = s.completed
  /\ slices' = s.slices
  /\ pauses' = s.pauses
  /\ UNCHANGED <<CONFIG, urls, collector, sitemapUrl>>

Alive == exitStatus = NoExit

\* --------------------------------------------------------- resource tracker
Handle(u, n) == [url |-> u, attempt |-> n]

\* Set.prototype.add: append unless the value is already an element.
SetAddNoDedup(data, h) == Append(data, h)

SetAdd(data, h) ==
  IF \E k \in 1..Len(data) : data[k] = h THEN data ELSE Append(data, h)

SetClearMissing(data) == data

\* Set.prototype.clear: every element of [[SetData]] is replaced by empty.
SetClear(data) == [k \in 1..Len(data) |-> Empty]

SetNextFirstOnly(data, idx) ==
  IF idx = 0 /\ \E k \in 1..Len(data) : data[k] # Empty
  THEN CHOOSE k \in 1..Len(data) :
         data[k] # Empty /\ \A j \in 1..(k - 1) : data[j] = Empty
  ELSE 0

\* %SetIteratorPrototype%.next: the first non-empty entry after position idx,
\* 0 when the list is exhausted.
SetNext(data, idx) ==
  IF \E k \in (idx + 1)..Len(data) : data[k] # Empty
  THEN CHOOSE k \in (idx + 1)..Len(data) :
         /\ data[k] # Empty
         /\ \A j \in (idx + 1)..(k - 1) : data[j] = Empty
  ELSE 0

AfterCleanupFaultExitsZero(pre, by) ==
  Bind(pre, LAMBDA s :
    IF by = "main"
    THEN [s EXCEPT !.reported = s.results, !.mainPc = "writing"]
    ELSE [s EXCEPT !.exitStatus = <<0>>])

\* What runs after cleanup() returns, per caller.
AfterCleanup(pre, by) ==
  Bind(pre, LAMBDA s :
    IF by = "main"
    THEN [s EXCEPT !.reported = s.results, !.mainPc = "writing"]
    ELSE IF by = "fault"
    THEN [s EXCEPT !.exitStatus = <<1>>]
    ELSE [s EXCEPT !.exitStatus = <<0>>])

\* The loop of cleanup() from the iterator position of invocation c up to
\* its next await on browser.close(), or to clear() and the return.
CleanupAdvance(pre, c) ==
  Bind(pre, LAMBDA s :
    Bind(SetNext(s.browserInstances, s.cleanups[c].idx), LAMBDA nxt :
      IF nxt # 0
      THEN [s EXCEPT !.cleanups[c].idx = nxt,
                     !.cleanups[c].pc = "closing",
                     !.closeCalls[s.browserInstances[nxt]] = @ + 1]
      ELSE AfterCleanup(
             [s EXCEPT !.browserInstances = SetClear(@),
                       !.cleanups[c].pc = "returned"],
             s.cleanups[c].by)))

cleanup(pre, by) ==
  Bind(pre, LAMBDA s :
    CleanupAdvance(
      [s EXCEPT !.cleanups =
                  Append(@, [by |-> by, idx |-> 0, pc |-> "closing",
                             raisedAt |-> 0,
                             size |-> Len(s.browserInstances)])],
      Len(s.cleanups) + 1))

\* ------------------------------------------------------------ retry timing
\* Milliseconds are fractions num/den (den > 0): RETRY_MULTIPLIER is read
\* with parseFloat, Math.random() is a fraction in [0, 1).
DefaultInitialRetryDelay == 5000
DefaultDelayBetweenRequests == 5000
JitterFactor == 2000

DefaultRetryMultiplier == [num |-> 2, den |-> 1]

Ms(n) == [num |-> n, den |-> 1]

\* No delay() is awaited by runAccessibilityCheck.
NoWait == [kind |-> "none", ms |-> Ms(0)]

RECURSIVE pow(_, _)
pow(b, e) == IF e = 0 THEN 1 ELSE b * pow(b, e - 1)

\* INITIAL_RETRY_DELAY / Math.pow(RETRY_MULTIPLIER, attemptNumber - 1)
retryDelayShrinking(attemptNumber) ==
  [num |-> CONFIG.INITIAL_RETRY_DELAY
             * pow(CONFIG.RETRY_MULTIPLIER.den, attemptNumber - 1),
   den |-> pow(CONFIG.RETRY_MULTIPLIER.num, attemptNumber - 1)]

\* CONFIG.INITIAL_RETRY_DELAY * Math.pow(CONFIG.RETRY_MULTIPLIER,
\* attemptNumber - 1)
retryDelay(attemptNumber) ==
  [num |-> CONFIG.INITIAL_RETRY_DELAY
             * pow(CONFIG.RETRY_MULTIPLIER.num, attemptNumber - 1),
   den |-> pow(CONFIG.RETRY_MULTIPLIER.den, attemptNumber - 1)]

InterBatchWaitSingle == Ms(CONFIG.DELAY_BETWEEN_REQUESTS)

\* main awaits delay(CONFIG.DELAY_BETWEEN_REQUESTS * 2).
InterBatchWait == Ms(CONFIG.DELAY_BETWEEN_REQUESTS * 2)

\* The unit function awaits delay(CONFIG.DELAY_BETWEEN_REQUESTS).
PacingWait == [kind |-> "pacing", ms |-> Ms(CONFIG.DELAY_BETWEEN_REQUESTS)]

\* Values of Math.random(): the least one and one close to 1.
MathRandom == {[num |-> 0, den |-> 1], [num |-> 1999, den |-> 2000]}

jitterUpToFour(random) ==
  [num |-> random.num * 2 * JitterFactor, den |-> random.den]

\* Math.random() * 2000
jitter(random) == [num |-> random.num * JitterFactor, den |-> random.den]

\* ------------------------------------------------------ concurrency limiter
\* The unit function passed to limiter.run, up to its first await: it calls
\* runAccessibilityCheck(url) with attemptNumber = 1, which invokes pa11y.
StartUnit(s, u) ==
  [s EXCEPT !.job[u] = [pc |-> "checking", attemptNumber |-> 1,
                        outcome |-> Pending, wait |-> NoWait,
               backoffs |-> <<>>]]

ProcessGuardOffByOne(s) ==
  s.running > CONFIG.MAX_CONCURRENT_CHECKS \/ Len(s.queue) = 0

ProcessGuardEarly(s) ==
  s.running >= CONFIG.MAX_CONCURRENT_CHECKS - 1 \/ Len(s.queue) = 0

ProcessGuard(s) ==
  s.running >= CONFIG.MAX_CONCURRENT_CHECKS \/ Len(s.queue) = 0

Process(pre) ==
  Bind(pre, LAMBDA s :
    IF ProcessGuard(s)
    THEN s
    ELSE StartUnit([s EXCEPT !.running = @ + 1, !.queue = Tail(@)],
                   Head(s.queue)))

RunWithoutProcess(s, u) ==
  [s EXCEPT !.queue = Append(@, u), !.job[u].pc = "queued"]

RunUnshift(s, u) ==
  Process([s EXCEPT !.queue = <<u>> \o @, !.job[u].pc = "queued"])

\* limiter.run(fn): the unit is pushed at the back of the queue and process()
\* is called.
Run(s, u) ==
  Process([s EXCEPT !.queue = Append(@, u), !.job[u].pc = "queued"])

\* ---------------------------------------------------------- batch coordinator
BatchesFloor == Len(urls) \div CONFIG.BATCH_SIZE

\* Math.ceil(urls.length / CONFIG.BATCH_SIZE), for a positive BATCH_SIZE.
Batches == (Len(urls) + CONFIG.BATCH_SIZE - 1) \div CONFIG.BATCH_SIZE

BatchOf(i) ==
  LET startIdx == i * CONFIG.BATCH_SIZE
      endIdx == Min(startIdx + CONFIG.BATCH_SIZE, Len(urls))
  IN SubSeq(urls, startIdx + 1, endIdx)

RECURSIVE MapRun(_, _)
MapRun(s, batch) ==
  IF batch = <<>> THEN s ELSE MapRun(Run(s, Head(batch)), Tail(batch))

PushResultsOverwrite(res, batchResults) == batchResults

\* results.push(...batchResults)
PushResults(res, batchResults) == res \o batchResults

BatchSettledAny(s) ==
  \E k \in 1..Len(BatchOf(s.batchIndex)) :
     s.settled[BatchOf(s.batchIndex)[k]] # Pending

\* Promise.all(promises) has resolved: every promise of the batch has.
BatchSettled(s) ==
  \A k \in 1..Len(BatchOf(s.batchIndex)) :
     s.settled[BatchOf(s.batchIndex)[k]] # Pending

PromiseAllInSettlementOrder(s, batch) ==
  LET order == SelectSeq(s.completed,
                         LAMBDA u : \E k \in 1..Len(batch) : batch[k] = u)
  IN [k \in 1..Len(order) |-> s.settled[order[k]]]

\* The value of Promise.all(promises): the k-th element is the value of the
\* k-th promise, whatever the order in which the promises were resolved.
PromiseAll(s, batch) == [k \in 1..Len(batch) |-> s.settled[batch[k]]]

MainAfterBatchAbortsOnError(pre) ==
  Bind(pre, LAMBDA s :
    LET batch == BatchOf(s.batchIndex)
        batchResults == PromiseAll(s, batch)
        t == [s EXCEPT !.results = PushResults(@, batchResults)]
    IN IF \E k \in 1..Len(batch) : batchResults[k].status = "error"
       THEN cleanup([s EXCEPT !.mainPc = "rejected"], "fault")
       ELSE IF s.batchIndex < Batches - 1
       THEN [t EXCEPT !.mainPc = "interBatchDelay",
                      !.pauses = Append(@, InterBatchWait)]
       ELSE cleanup(t, "main"))

\* main resumes from `await processUrlBatch(...)` once Promise.all resolves.
MainAfterBatch(pre) ==
  Bind(pre, LAMBDA s :
    LET batch == BatchOf(s.batchIndex)
        batchResults == PromiseAll(s, batch)
        t == [s EXCEPT !.results = PushResults(@, batchResults)]
    IN IF s.batchIndex < Batches - 1
       THEN [t EXCEPT !.mainPc = "interBatchDelay",
                      !.pauses = Append(@, InterBatchWait)]
       ELSE cleanup(t, "main"))

\* processUrlBatch called by main: every url of the batch is submitted to the
\* limiter, then main awaits Promise.all (which resolves at once for an empty
\* list of promises).
processUrlBatch(pre) ==
  Bind(pre, LAMBDA s :
    Bind([MapRun(s, BatchOf(s.batchIndex))
            EXCEPT !.mainPc = "awaitBatch",
                   !.slices = Append(@, BatchOf(s.batchIndex))],
         LAMBDA t : IF BatchSettled(t) THEN MainAfterBatch(t) ELSE t))

UnitReturnsNoProcess(s, u, o) ==
  Bind([s EXCEPT !.job[u].pc = "done",
                 !.settled[u] = o,
                 !.completed = Append(@, u),
                 !.running = @ - 1],
       LAMBDA t : IF t.mainPc = "awaitBatch" /\ BatchSettled(t)
                  THEN MainAfterBatch(t)
                  ELSE t)

\* The unit of url u returns outcome o: the limiter resolves its promise,
\* releases the slot and calls process(); Promise.all may then resolve.
UnitReturns(s, u, o) ==
  Bind(Process([s EXCEPT !.job[u].pc = "done",
                         !.settled[u] = o,
                         !.completed = Append(@, u),
                         !.running = @ - 1]),
       LAMBDA t : IF t.mainPc = "awaitBatch" /\ BatchSettled(t)
                  THEN MainAfterBatch(t)
                  ELSE t)

\* --------------------------------------------------------- url collector
\* Number of retries of fetchXML (its default parameter value).
FetchRetries == 2

\* A parsed document: its root element and, per <url> or <sitemap> child in
\* document order, the first <loc> (0 for a child without a usable loc).
\* fetchXML returns NullDoc for null.
NullDoc == [kind |-> "null", locs |-> <<>>]

LocSeqs(ids) == UNION {[1..n -> ids] : n \in 0..MaxLocs}

UrlsetDocs == {[kind |-> "urlset", locs |-> l] : l \in LocSeqs(0..MaxLocId)}

IndexDocs ==
  {[kind |-> "sitemapindex", locs |-> [k \in 1..n |-> k]] : n \in 0..MaxChildren}

OtherDoc == [kind |-> "other", locs |-> <<>>]

Docs == UrlsetDocs \cup IndexDocs \cup {OtherDoc}

\* The locs pushed by the forEach of both extractors: items whose loc[0]
\* is truthy, in document order.
TruthyLocs(locs) == SelectSeq(locs, LAMBDA l : l # 0)

extractUrlsFromSitemap(doc) ==
  IF doc.kind = "urlset" THEN TruthyLocs(doc.locs) ELSE <<>>

getSitemapsFromIndex(doc) ==
  IF doc.kind = "sitemapindex" THEN TruthyLocs(doc.locs) ELSE <<>>

RECURSIVE AddAllBackwards(_, _)
AddAllBackwards(data, list) ==
  IF list = <<>> THEN data
  ELSE AddAllBackwards(SetAdd(data, list[Len(list)]),
                       SubSeq(list, 1, Len(list) - 1))

\* urls.forEach(url => allUrls.add(url))
RECURSIVE AddAll(_, _)
AddAll(data, list) ==
  IF list = <<>> THEN data ELSE AddAll(SetAdd(data, Head(list)), Tail(list))

\* Array.from(allUrls): the elements in insertion order.  Nothing is ever
\* deleted from allUrls, so its [[SetData]] list has no empty entry and the
\* array has one element per entry.
ArrayFrom(data) == [k \in 1..Len(data) |-> data[k]]

\* Bound of the environment specification (EnvSpec below).
MaxNegativeLimit == 2

\* Bounds of the retry specification (RetrySpec below).
MaxRetryAttempts == 4
MaxRetryUrls == 2

\* ------------------------------------------------ command-line argument
\* Strings are lists of characters.  The characters String.prototype.trim
\* removes (the two that occur in the inputs below).
MaxPad == 1
MaxSlashes == 2

WhiteSpace == {" ", "\t"}

Http == <<"h","t","t","p",":","/","/">>
Https == <<"h","t","t","p","s",":","/","/">>
DotXml == <<".","x","m","l">>
SitemapIndexPath ==
  <<"/","s","i","t","e","m","a","p","_","i","n","d","e","x",".","x","m","l">>

trim(s) ==
  LET keep == {k \in 1..Len(s) : s[k] \notin WhiteSpace}
  IN  IF keep = {} THEN <<>>
      ELSE SubSeq(s, CHOOSE k \in keep : \A j \in keep : k <= j,
                     CHOOSE k \in keep : \A j \in keep : j <= k)

startsWith(s, p) == Len(p) <= Len(s) /\ SubSeq(s, 1, Len(p)) = p

endsWith(s, p) ==
  Len(p) <= Len(s) /\ SubSeq(s, Len(s) - Len(p) + 1, Len(s)) = p

\* url.replace(/\/+$/, ''): every trailing slash goes.
replaceTrailingSlashes(s) ==
  LET keep == {k \in 1..Len(s) : s[k] # "/"}
  IN  IF keep = {} THEN <<>>
      ELSE SubSeq(s, 1, CHOOSE k \in keep : \A j \in keep : j <= k)

\* url.replace(/\/$/, ''): the pattern matches one slash at the end of the
\* string, and replace without the g flag replaces one match.
replaceTrailingSlash(s) ==
  IF endsWith(s, <<"/">>) THEN SubSeq(s, 1, Len(s) - 1) ELSE s

\* processSitemapUrl for a truthy input (the falsy one exits, see
\* ProcessArgument).
processSitemapUrl(input) ==
  LET url == trim(input)
      withProtocol ==
        IF ~startsWith(url, Http) /\ ~startsWith(url, Https)
        THEN Https \o url ELSE url
  IN  IF endsWith(withProtocol, DotXml) THEN withProtocol
      ELSE replaceTrailingSlash(withProtocol) \o SitemapIndexPath

\* Arguments the script is started with: optional blanks, an optional
\* protocol (one in upper case, which startsWith does not accept), an
\* optional host, an optional path ending in .xml or .XML, some slashes,
\* optional tabs.  The empty list stands for a missing or empty argument.
Pad(c, n) == [k \in 1..n |-> c]
Protocols == {<<>>, Http, Https, <<"H","T","T","P",":","/","/">>}
Hosts == {<<>>, <<"a",".","c","o">>}
Paths == {<<>>, DotXml, <<"/","s">> \o DotXml, <<".","X","M","L">>}
Arguments ==
  {Pad(" ", l) \o p \o h \o f \o Pad("/", n) \o Pad("\t", t) :
     l \in 0..MaxPad, p \in Protocols, h \in Hosts, f \in Paths,
     n \in 0..MaxSlashes, t \in 0..MaxPad}

\* sitemapUrl while the argument is not followed.
SitemapUrlOff == [pc |-> "off", input |-> <<>>, url |-> <<>>, again |-> <<>>]

\* What makes an attempt of fetchXML fail: axios.get rejects, or
\* parser.parseStringPromise rejects.
FetchFailures == {"transport", "parse"}

FetchDelayStep == 1000

delayMsFlat(attempt) == Ms(FetchDelayStep)

\* const delayMs = 1000 * (attempt + 1)
delayMs(attempt) == Ms(FetchDelayStep * (attempt + 1))

CollectorOff ==
  [pc |-> "off", target |-> 0, attempt |-> 0, indexData |-> NullDoc,
   sitemaps |-> <<>>, allUrls |-> <<>>, log |-> <<>>, result |-> <<>>,
   wait |-> Ms(0), failure |-> "none"]

\* fetchXML(url) is entered for document k (0: the sitemap index, k >= 1:
\* the k-th entry of sitemaps) and awaits axios.get.
FetchXML(c, k) ==
  [c EXCEPT !.pc = "fetching", !.target = k, !.attempt = 0]

\* After the loop over sitemaps: the urls of indexData itself are added and
\* the Set is returned as an array.
CollectFinish(c) ==
  Bind(AddAll(c.allUrls, extractUrlsFromSitemap(c.indexData)), LAMBDA set :
    [c EXCEPT !.allUrls = set, !.result = ArrayFrom(set), !.pc = "returned"])

\* The loop over sitemaps from entry k on, up to its next await.
CollectLoop(c, k) ==
  IF k <= Len(c.sitemaps) THEN FetchXML(c, k) ELSE CollectFinish(c)

FetchReturnsAbortsOnNull(pre, data) ==
  Bind([pre EXCEPT !.log = Append(@, data)], LAMBDA c :
    IF data = NullDoc
    THEN [c EXCEPT !.result = <<>>, !.pc = "returned"]
    ELSE IF c.target = 0
    THEN CollectLoop([c EXCEPT !.indexData = data,
                               !.sitemaps = getSitemapsFromIndex(data)],
                     1)
    ELSE CollectLoop(
           [c EXCEPT !.allUrls = AddAll(@, extractUrlsFromSitemap(data))],
           c.target + 1))

\* getAllUrls resumes with the value data returned by fetchXML.
FetchReturns(pre, data) ==
  Bind([pre EXCEPT !.log = Append(@, data)], LAMBDA c :
    IF c.target = 0
    THEN IF data = NullDoc
         THEN [c EXCEPT !.result = <<>>, !.pc = "returned"]
         ELSE CollectLoop([c EXCEPT !.indexData = data,
                                    !.sitemaps = getSitemapsFromIndex(data)],
                          1)
    ELSE CollectLoop(
           IF data # NullDoc
           THEN [c EXCEPT !.allUrls = AddAll(@, extractUrlsFromSitemap(data))]
           ELSE c,
           c.target + 1))

AllHandles ==
  {Handle(u, n) : u \in 1..MaxUrls, n \in 1..MaxRetriesBound}

Init ==
  /\ CONFIG \in [MAX_CONCURRENT_CHECKS : 1..MaxLimit,
                 BATCH_SIZE : 1..MaxBatch,
                 MAX_RETRIES : 1..MaxRetriesBound,
                 INITIAL_RETRY_DELAY : {DefaultInitialRetryDelay},
                 RETRY_MULTIPLIER : {DefaultRetryMultiplier},
                 DELAY_BETWEEN_REQUESTS : {DefaultDelayBetweenRequests}]
  /\ \E n \in 1..MaxUrls : urls = [k \in 1..n |-> k]
  /\ running = 0
  /\ queue = <<>>
  /\ job = [u \in 1..Len(urls) |->
              [pc |-> "unsubmitted", attemptNumber |-> 0, outcome |-> Pending, wait |-> NoWait,
               backoffs |-> <<>>]]
  /\ settled = [u \in 1..Len(urls) |-> Pending]
  /\ results = <<>>
  /\ batchIndex = 0
  /\ mainPc = "start"
  /\ browserInstances = <<>>
  /\ registered = {}
  /\ closeCalls = [h \in AllHandles |-> 0]
  /\ cleanups = <<>>
  /\ reported = <<>>
  /\ exitStatus = NoExit
  /\ signals = 0
  /\ attemptLog = [u \in 1..Len(urls) |-> <<>>]
  /\ completed = <<>>
  /\ slices = <<>>
  /\ pauses = <<>>
  /\ collector = CollectorOff
  /\ sitemapUrl = SitemapUrlOff

\* ------------------------------------------------------------- job runner
\* Strings shown for url u: the url itself and the title of its document.
UrlLabel(u) == [kind |-> "url", of |-> u]
TitleLabel(u) == [kind |-> "title", of |-> u]

\* An optional property of a JavaScript object is <<>> when missing (or
\* falsy) and <<v>> when it holds v; OrElse(p, d) is `p || d`.
OrElse(p, d) == IF p = <<>> THEN d ELSE p[1]

\* The objects pa11y(url) resolves with: one with every property the runner
\* reads, one with none of them.
Pa11yResults(u) ==
  {[browser |-> TRUE, documentTitle |-> <<TitleLabel(u)>>,
    issues |-> << <<"issue">> >>],
   [browser |-> FALSE, documentTitle |-> <<>>, issues |-> <<>>]}

SuccessOutcome(u, res, n) ==
  [url |-> u, issues |-> OrElse(res.issues, <<>>), status |-> "success",
   documentTitle |-> OrElse(res.documentTitle, UrlLabel(u)), attempts |-> n]

ErrorOutcomeWrongStatus(u, e, n, isRetryable) ==
  [url |-> u, issues |-> <<>>, status |-> "success", error |-> e,
   documentTitle |-> UrlLabel(u), attempts |-> n, isRetryable |-> isRetryable]

ErrorOutcome(u, e, n, isRetryable) ==
  [url |-> u, issues |-> <<>>, status |-> "error", error |-> e,
   documentTitle |-> UrlLabel(u), attempts |-> n, isRetryable |-> isRetryable]

\* The record built by the catch block of the unit function.
UnexpectedOutcome(u) ==
  [url |-> u, issues |-> <<>>, status |-> "error", error |-> "TypeError",
   documentTitle |-> UrlLabel(u), attempts |-> 1]

ShouldRetryInclusive(isRetryable, attemptNumber) ==
  isRetryable /\ attemptNumber <= CONFIG.MAX_RETRIES

ShouldRetryIgnoresClass(isRetryable, attemptNumber) ==
  attemptNumber < CONFIG.MAX_RETRIES

ShouldRetry(isRetryable, attemptNumber) ==
  isRetryable /\ attemptNumber < CONFIG.MAX_RETRIES

\* pa11y resolves with res; results.browser holds the session handle iff
\* res.browser is TRUE.
CheckerResolves(u, res) ==
  /\ Alive
  /\ job[u].pc = "checking"
  /\ LET n == job[u].attemptNumber
         h == Handle(u, n)
         s == [St EXCEPT !.attemptLog[u] = Append(@, "ok"),
                         !.job[u].pc = "pacing",
                         !.job[u].wait = PacingWait,
                         !.job[u].outcome = SuccessOutcome(u, res, n)]
     IN Becomes(IF res.browser
                THEN [s EXCEPT !.registered = @ \cup {h},
                               !.browserInstances = SetAdd(@, h)]
                ELSE s)

CheckerRejectsReleasesSlot(u, e) ==
  /\ Alive
  /\ job[u].pc = "checking"
  /\ LET n == job[u].attemptNumber
         s == [St EXCEPT !.attemptLog[u] = Append(@, e)]
     IN IF isRetryableErrorThrows(e)
        THEN Becomes(UnitReturns(
                       [s EXCEPT !.job[u].outcome = [status |-> "rejected"]],
                       u, UnexpectedOutcome(u)))
        ELSE IF ShouldRetry(isRetryableError(e), n)
        THEN Becomes(Process(
                       [s EXCEPT !.job[u].pc = "backoff",
                                 !.job[u].wait =
                                    [kind |-> "backoff", ms |-> retryDelay(n)],
                                 !.job[u].backoffs = Append(@, retryDelay(n)),
                                 !.running = @ - 1]))
        ELSE Becomes([s EXCEPT !.job[u].pc = "pacing",
                               !.job[u].wait = PacingWait,
                               !.job[u].outcome =
                                  ErrorOutcome(u, e, n, isRetryableError(e))])

\* pa11y rejects with e and the catch block of runAccessibilityCheck runs.
\* When the classifier throws, runAccessibilityCheck itself rejects (its
\* outcome is marked "rejected"), the catch block of the unit function
\* builds the record and the unit returns without the request delay.
CheckerRejects(u, e) ==
  /\ Alive
  /\ job[u].pc = "checking"
  /\ LET n == job[u].attemptNumber
         s == [St EXCEPT !.attemptLog[u] = Append(@, e)]
     IN IF isRetryableErrorThrows(e)
        THEN Becomes(UnitReturns(
                       [s EXCEPT !.job[u].outcome = [status |-> "rejected"]],
                       u, UnexpectedOutcome(u)))
        ELSE IF ShouldRetry(isRetryableError(e), n)
        THEN Becomes([s EXCEPT !.job[u].pc = "backoff",
                               !.job[u].wait =
                                  [kind |-> "backoff", ms |-> retryDelay(n)],
                               !.job[u].backoffs = Append(@, retryDelay(n))])
        ELSE Becomes([s EXCEPT !.job[u].pc = "pacing",
                               !.job[u].wait = PacingWait,
                               !.job[u].outcome =
                                  ErrorOutcome(u, e, n, isRetryableError(e))])

\* delay(retryDelay) elapses: runAccessibilityCheck(url, attemptNumber + 1)
\* is entered and, attemptNumber being > 1, awaits delay(jitter).
RetryDelayElapsed(u) ==
  /\ Alive
  /\ job[u].pc = "backoff"
  /\ IF job[u].attemptNumber + 1 > 1
     THEN \E random \in MathRandom :
            Becomes([St EXCEPT !.job[u].attemptNumber = @ + 1,
                               !.job[u].pc = "jitter",
                               !.job[u].wait = [kind |-> "jitter",
                                                ms |-> jitter(random)]])
     ELSE Becomes([St EXCEPT !.job[u].attemptNumber = @ + 1,
                             !.job[u].pc = "checking",
                             !.job[u].wait = NoWait])

\* delay(jitter) elapses: pa11y is invoked for the new attempt.
JitterElapsed(u) ==
  /\ Alive
  /\ job[u].pc = "jitter"
  /\ Becomes([St EXCEPT !.job[u].pc = "checking", !.job[u].wait = NoWait])

\* delay(DELAY_BETWEEN_REQUESTS) elapses: the unit function returns result.
RequestDelayElapsed(u) ==
  /\ Alive
  /\ job[u].pc = "pacing"
  /\ Becomes(UnitReturns([St EXCEPT !.job[u].wait = NoWait], u,
                          job[u].outcome))

\* ------------------------------------------------------------------- main
MainStart ==
  /\ Alive
  /\ mainPc = "start"
  /\ Becomes(processUrlBatch(St))

\* delay(DELAY_BETWEEN_REQUESTS * 2) elapses: next iteration of the loop.
BatchDelayElapsed ==
  /\ Alive
  /\ mainPc = "interBatchDelay"
  /\ Becomes(processUrlBatch([St EXCEPT !.batchIndex = @ + 1]))

\* fs.writeFile settles: main logs the summary and exits 0, or main rejects
\* and the catch handler of main() runs cleanup() and exits 1.
WriteFileSettles(ok) ==
  /\ Alive
  /\ mainPc = "writing"
  /\ IF ok
     THEN Becomes([St EXCEPT !.mainPc = "done", !.exitStatus = <<0>>])
     ELSE Becomes(cleanup([St EXCEPT !.mainPc = "rejected"], "fault"))

\* ---------------------------------------------------------------- cleanup
\* The browser.close() awaited by cleanup invocation c settles; a rejection
\* is swallowed by the empty catch block.
CloseSettles(c, ok) ==
  /\ Alive
  /\ c \in 1..Len(cleanups)
  /\ cleanups[c].pc = "closing"
  /\ Becomes(CleanupAdvance(
               [St EXCEPT !.cleanups[c].raisedAt =
                            IF ok \/ @ # 0 THEN @ ELSE cleanups[c].idx],
               c))

\* The two signal handlers run the same code: await cleanup(), then
\* process.exit(0).  The handlers stay installed, so the process keeps
\* running its jobs and timers while cleanup() is suspended.
SIGINT ==
  /\ Alive
  /\ signals < MaxSignals
  /\ Becomes(cleanup([St EXCEPT !.signals = @ + 1], "signal"))

SIGTERM ==
  /\ Alive
  /\ signals < MaxSignals
  /\ Becomes(cleanup([St EXCEPT !.signals = @ + 1], "signal"))

\* ------------------------------------------------------------------- Next
CheckerSettles ==
  \E u \in 1..Len(urls) :
     \/ \E res \in Pa11yResults(u) : CheckerResolves(u, res)
     \/ \E e \in ErrorValues : CheckerRejects(u, e)

TimerFires ==
  \/ \E u \in 1..Len(urls) : RetryDelayElapsed(u)
  \/ \E u \in 1..Len(urls) : JitterElapsed(u)
  \/ \E u \in 1..Len(urls) : RequestDelayElapsed(u)
  \/ BatchDelayElapsed

IoSettles ==
  \/ \E c \in 1..Len(cleanups), ok \in BOOLEAN : CloseSettles(c, ok)
  \/ \E ok \in BOOLEAN : WriteFileSettles(ok)

NextNoSignal ==
  \/ MainStart
  \/ CheckerSettles
  \/ TimerFires
  \/ IoSettles

Next ==
  \/ NextNoSignal
  \/ SIGINT
  \/ SIGTERM

Spec == Init /\ [][Next]_vars

\* Every settlement of an external promise (checker, timer, close, write)
\* eventually happens and no signal arrives.
LiveInit == Init /\ Len(urls) <= LiveMaxUrls

LiveSpec == LiveInit /\ [][NextNoSignal]_vars /\ WF_vars(NextNoSignal)

\* ------------------------------------------------- the limiter on its own
\* The ConcurrencyLimiter driven by a caller other than processUrlBatch:
\* run(fn) is called for units 1, 2, ... at arbitrary moments, and the
\* promise returned by each fn() either resolves with the unit's own value
\* or rejects.  job[u].pc = "checking" stands for "fn() is pending".
LimiterInit ==
  /\ CONFIG \in [MAX_CONCURRENT_CHECKS : 1..MaxLimit,
                 BATCH_SIZE : {1}, MAX_RETRIES : {1},
                 INITIAL_RETRY_DELAY : {DefaultInitialRetryDelay},
                 RETRY_MULTIPLIER : {DefaultRetryMultiplier},
                 DELAY_BETWEEN_REQUESTS : {DefaultDelayBetweenRequests}]
  /\ \E n \in 1..MaxUnits : urls = [k \in 1..n |-> k]
  /\ running = 0
  /\ queue = <<>>
  /\ job = [u \in 1..Len(urls) |->
              [pc |-> "unsubmitted", attemptNumber |-> 0, outcome |-> Pending, wait |-> NoWait,
               backoffs |-> <<>>]]
  /\ settled = [u \in 1..Len(urls) |-> Pending]
  /\ results = <<>>
  /\ batchIndex = 0
  /\ mainPc = "none"
  /\ browserInstances = <<>>
  /\ registered = {}
  /\ closeCalls = [h \in AllHandles |-> 0]
  /\ cleanups = <<>>
  /\ reported = <<>>
  /\ exitStatus = NoExit
  /\ signals = 0
  /\ attemptLog = [u \in 1..Len(urls) |-> <<>>]
  /\ completed = <<>>
  /\ slices = <<>>
  /\ pauses = <<>>
  /\ collector = CollectorOff
  /\ sitemapUrl = SitemapUrlOff

UnitRaisesKeepsSlot(s, u, e) ==
  Process([s EXCEPT !.job[u].pc = "done",
                    !.settled[u] = [status |-> "rejected", reason |-> e],
                    !.completed = Append(@, u)])

\* fn() of unit u rejects with e: the catch block rejects the promise of
\* run(), the finally block releases the slot and calls process().
UnitRaises(s, u, e) ==
  Process([s EXCEPT !.job[u].pc = "done",
                    !.settled[u] = [status |-> "rejected", reason |-> e],
                    !.completed = Append(@, u),
                    !.running = @ - 1])

\* run(fn) for the next unit.
LimiterSubmit ==
  \E u \in 1..Len(urls) :
     /\ job[u].pc = "unsubmitted"
     /\ \A v \in 1..(u - 1) : job[v].pc # "unsubmitted"
     /\ Becomes(Run(St, u))

FnResolves ==
  \E u \in 1..Len(urls) :
     /\ job[u].pc = "checking"
     /\ Becomes(UnitReturns(St, u, [status |-> "fulfilled", value |-> u]))

FnRejects ==
  \E u \in 1..Len(urls) :
     /\ job[u].pc = "checking"
     /\ Becomes(UnitRaises(St, u, u))

LimiterNext ==
  \/ LimiterSubmit
  \/ FnResolves
  \/ FnRejects

LimiterSpec == LimiterInit /\ [][LimiterNext]_vars

\* ------------------------------------------------ the batch loop on its own
\* The slicing done by the loop of main, for lists and batch sizes larger
\* than the ones the jobs are run on: each step is one iteration of the loop
\* with processUrlBatch taken as returned.
SliceInit ==
  /\ CONFIG \in [MAX_CONCURRENT_CHECKS : {1},
                 BATCH_SIZE : 1..MaxSliceBatch, MAX_RETRIES : {1},
                 INITIAL_RETRY_DELAY : {DefaultInitialRetryDelay},
                 RETRY_MULTIPLIER : {DefaultRetryMultiplier},
                 DELAY_BETWEEN_REQUESTS : {DefaultDelayBetweenRequests}]
  /\ \E n \in 1..MaxSliceUrls : urls = [k \in 1..n |-> k]
  /\ running = 0
  /\ queue = <<>>
  /\ job = [u \in 1..Len(urls) |->
              [pc |-> "unsubmitted", attemptNumber |-> 0, outcome |-> Pending, wait |-> NoWait,
               backoffs |-> <<>>]]
  /\ settled = [u \in 1..Len(urls) |-> Pending]
  /\ results = <<>>
  /\ batchIndex = 0
  /\ mainPc = "loop"
  /\ browserInstances = <<>>
  /\ registered = {}
  /\ closeCalls = [h \in AllHandles |-> 0]
  /\ cleanups = <<>>
  /\ reported = <<>>
  /\ exitStatus = NoExit
  /\ signals = 0
  /\ attemptLog = [u \in 1..Len(urls) |-> <<>>]
  /\ completed = <<>>
  /\ slices = <<>>
  /\ pauses = <<>>
  /\ collector = CollectorOff
  /\ sitemapUrl = SitemapUrlOff

\* One iteration: `i < batches`, the slice is taken, i++.
SliceIteration ==
  /\ mainPc = "loop"
  /\ batchIndex < Batches
  /\ Becomes([St EXCEPT !.slices = Append(@, BatchOf(batchIndex)),
                        !.batchIndex = @ + 1])

\* `i < batches` is false: the loop is left.
SliceLoopExit ==
  /\ mainPc = "loop"
  /\ ~(batchIndex < Batches)
  /\ Becomes([St EXCEPT !.mainPc = "afterLoop"])

SliceNext ==
  \/ SliceIteration
  \/ SliceLoopExit

SliceSpec == SliceInit /\ [][SliceNext]_vars

\* ------------------------------------------------ the collector on its own
\* main from its check of the sitemap url up to the first batch: axios.head,
\* then getAllUrls from its call to its return, then the test of
\* urls.length.  Each response is drawn when the request settles.  The run
\* of the jobs (Spec) starts where this part ends, at mainPc = "start".
runVars == <<CONFIG, urls, running, queue, job, settled, results, batchIndex,
             mainPc, browserInstances, registered, closeCalls, cleanups,
             reported, exitStatus, signals, attemptLog, completed, slices,
             pauses, sitemapUrl>>

idleVars == <<CONFIG, running, queue, results, batchIndex, browserInstances,
              registered, closeCalls, cleanups, reported, signals, completed,
              slices, pauses, sitemapUrl>>

CollectInit ==
  /\ CONFIG = [MAX_CONCURRENT_CHECKS |-> 1, BATCH_SIZE |-> 1, MAX_RETRIES |-> 1,
               INITIAL_RETRY_DELAY |-> DefaultInitialRetryDelay,
               RETRY_MULTIPLIER |-> DefaultRetryMultiplier,
               DELAY_BETWEEN_REQUESTS |-> DefaultDelayBetweenRequests]
  /\ urls = <<>>
  /\ running = 0
  /\ queue = <<>>
  /\ job = <<>>
  /\ settled = <<>>
  /\ results = <<>>
  /\ batchIndex = 0
  /\ mainPc = "verifying"
  /\ browserInstances = <<>>
  /\ registered = {}
  /\ closeCalls = [h \in AllHandles |-> 0]
  /\ cleanups = <<>>
  /\ reported = <<>>
  /\ exitStatus = NoExit
  /\ signals = 0
  /\ attemptLog = <<>>
  /\ completed = <<>>
  /\ slices = <<>>
  /\ pauses = <<>>
  /\ collector = CollectorOff
  /\ sitemapUrl = SitemapUrlOff

\* axios.head settles: getAllUrls is called and awaits its first fetch, or
\* main reports the sitemap as inaccessible and exits 1.
HeadSettles(ok) ==
  /\ Alive
  /\ mainPc = "verifying"
  /\ IF ok
     THEN /\ mainPc' = "getAllUrls"
          /\ collector' = FetchXML(CollectorOff, 0)
          /\ UNCHANGED exitStatus
     ELSE /\ exitStatus' = <<1>>
          /\ UNCHANGED <<mainPc, collector>>
  /\ UNCHANGED <<urls, job, settled, attemptLog>>
  /\ UNCHANGED idleVars

MainAfterCollectExitsZero(list) ==
  IF Len(list) = 0
  THEN /\ exitStatus' = <<0>>
       /\ UNCHANGED <<urls, job, settled, attemptLog, mainPc>>
  ELSE /\ urls' = list
       /\ job' = [u \in 1..Len(list) |->
                    [pc |-> "unsubmitted", attemptNumber |-> 0,
                     outcome |-> Pending, wait |-> NoWait,
               backoffs |-> <<>>]]
       /\ settled' = [u \in 1..Len(list) |-> Pending]
       /\ attemptLog' = [u \in 1..Len(list) |-> <<>>]
       /\ mainPc' = "start"
       /\ UNCHANGED exitStatus

MainAfterCollectNoCheck(list) ==
  /\ urls' = list
  /\ job' = [u \in 1..Len(list) |->
               [pc |-> "unsubmitted", attemptNumber |-> 0, outcome |-> Pending, wait |-> NoWait,
               backoffs |-> <<>>]]
  /\ settled' = [u \in 1..Len(list) |-> Pending]
  /\ attemptLog' = [u \in 1..Len(list) |-> <<>>]
  /\ mainPc' = "start"
  /\ UNCHANGED exitStatus

\* main resumes from `await getAllUrls()` with the returned list: an empty
\* list is reported and the process exits 1, otherwise main goes on to the
\* batch loop over the list.
MainAfterCollect(list) ==
  IF Len(list) = 0
  THEN /\ exitStatus' = <<1>>
       /\ UNCHANGED <<urls, job, settled, attemptLog, mainPc>>
  ELSE /\ urls' = list
       /\ job' = [u \in 1..Len(list) |->
                    [pc |-> "unsubmitted", attemptNumber |-> 0,
                     outcome |-> Pending, wait |-> NoWait,
               backoffs |-> <<>>]]
       /\ settled' = [u \in 1..Len(list) |-> Pending]
       /\ attemptLog' = [u \in 1..Len(list) |-> <<>>]
       /\ mainPc' = "start"
       /\ UNCHANGED exitStatus

\* A step of getAllUrls that leaves it at c; main resumes if it returned.
CollectStep(c) ==
  /\ collector' = c
  /\ UNCHANGED idleVars
  /\ IF c.pc = "returned"
     THEN MainAfterCollect(c.result)
     ELSE UNCHANGED <<urls, job, settled, attemptLog, mainPc, exitStatus>>

\* axios.get resolves and the parser yields doc.
FetchResolves(doc) ==
  /\ Alive
  /\ collector.pc = "fetching"
  /\ \E c \in {FetchReturns(collector, doc)} : CollectStep(c)

\* axios.get or the parser rejects: the catch block awaits a delay before
\* the next attempt, or returns null once the retries are used up.
FetchRejects(failure) ==
  /\ Alive
  /\ collector.pc = "fetching"
  /\ IF collector.attempt < FetchRetries
     THEN CollectStep([collector EXCEPT !.pc = "retryDelay",
                                        !.wait = delayMs(collector.attempt),
                                        !.failure = failure])
     ELSE \E c \in {FetchReturns(collector, NullDoc)} : CollectStep(c)

\* delay(1000 * (attempt + 1)) elapses: the next iteration of fetchXML.
FetchDelayElapsed ==
  /\ Alive
  /\ collector.pc = "retryDelay"
  /\ collector' = [collector EXCEPT !.pc = "fetching", !.attempt = @ + 1,
                                   !.wait = Ms(0), !.failure = "none"]
  /\ UNCHANGED runVars

CollectNext ==
  \/ \E ok \in BOOLEAN : HeadSettles(ok)
  \/ \E doc \in Docs : FetchResolves(doc)
  \/ \E failure \in FetchFailures : FetchRejects(failure)
  \/ FetchDelayElapsed

CollectSpec == CollectInit /\ [][CollectNext]_vars

\* ----------------------------------------------------------------- helpers
Urls == 1..Len(urls)

InFlight == {"checking", "backoff", "jitter", "pacing"}

\* The index i of the iteration of main's loop whose slice holds url u.
BatchIndexOf(u) == (u - 1) \div CONFIG.BATCH_SIZE

\* The limiter has called the unit function of url u.
Started(u) == job[u].pc \notin {"unsubmitted", "queued"}

\* runAccessibilityCheck has returned an Outcome for url u.
RunnerReturned(u) == job[u].outcome.status \in {"success", "error"}

LiveSet(data) == {data[k] : k \in 1..Len(data)} \ {Empty}

Last(log) == log[Len(log)]

\* Session handles opened by the check attempts that have ended: a failed
\* attempt had launched its browser session before pa11y rejected, a
\* successful attempt holds the session that results.browser exposes.
opened ==
  registered \cup
  {h \in AllHandles :
     /\ h.url \in Urls
     /\ h.attempt <= Len(attemptLog[h.url])
     /\ attemptLog[h.url][h.attempt] # "ok"}

\* ------------------------------------------------------------------ claims

\* C1: with a concurrency limit L >= 1, the number of units the limiter has
\* started and not yet finished, which is its running count, never exceeds L.
C1_RunningAtMostLimit ==
  /\ running <= CONFIG.MAX_CONCURRENT_CHECKS
  /\ Cardinality({u \in Urls : job[u].pc \in InFlight}) = running

C1_Witness ==
  /\ running = CONFIG.MAX_CONCURRENT_CHECKS
  /\ Len(queue) > 0

\* C2: when the run reaches normal completion, the list handed to the report
\* generator holds exactly one Outcome for every discovered url.
C2_OneOutcomePerUrl ==
  mainPc \in {"writing", "done", "rejected"} =>
    /\ Len(reported) = Len(urls)
    /\ \A u \in Urls :
         Cardinality({k \in 1..Len(reported) : reported[k].url = u}) = 1

C2_Witness ==
  /\ mainPc = "writing"
  /\ Len(urls) >= 3
  /\ \E k \in 1..Len(reported) : reported[k].status = "success"
  /\ \E k \in 1..Len(reported) :
        reported[k].status = "error" /\ reported[k].attempts > 1
  /\ \E k \in 1..Len(reported) : reported[k] = UnexpectedOutcome(reported[k].url)

\* C3: if every external promise eventually settles and no signal arrives,
\* every job submitted to the limiter eventually produces its Outcome and
\* the run eventually reaches the report-generation step.
C3_EveryJobYieldsOutcome ==
  /\ \A u \in 1..MaxUrls :
        (u <= Len(urls) /\ job[u].pc # "unsubmitted")
           ~> (u <= Len(urls) /\ settled[u] # Pending)
  /\ <>(mainPc = "writing" /\ \A u \in Urls : job[u].pc = "done")

C3_Witness ==
  /\ mainPc = "writing"
  /\ signals = 0
  /\ Batches >= 2
  /\ \E u \in Urls : Len(attemptLog[u]) >= 2

\* C4: every Outcome returned by runAccessibilityCheck has
\* 1 <= attempts <= MAX_RETRIES, and attempts is the number of checker
\* invocations made for its url.
C4_AttemptsBounded ==
  \A u \in Urls :
     RunnerReturned(u) =>
       /\ 1 <= job[u].outcome.attempts
       /\ job[u].outcome.attempts <= CONFIG.MAX_RETRIES
       /\ job[u].outcome.attempts = Len(attemptLog[u])

C4_Witness ==
  \E u \in Urls :
     /\ RunnerReturned(u)
     /\ CONFIG.MAX_RETRIES >= 2
     /\ job[u].outcome.attempts = CONFIG.MAX_RETRIES

\* C5: an Outcome is success only if the last checker invocation succeeded,
\* no checker invocation follows a successful one, and an error Outcome
\* with retryable = false had its last error classified non-retryable or
\* used up the attempts.
C5_SuccessIsFinal ==
  \A u \in Urls :
     /\ \A k \in 1..Len(attemptLog[u]) :
           attemptLog[u][k] = "ok" =>
              k = Len(attemptLog[u]) /\ job[u].pc \in {"pacing", "done"}
     /\ (RunnerReturned(u) /\ job[u].outcome.status = "success") =>
           Last(attemptLog[u]) = "ok"
     /\ (RunnerReturned(u) /\ job[u].outcome.status = "error"
           /\ job[u].outcome.isRetryable = FALSE) =>
           \/ Last(attemptLog[u]) = "InvalidSelector"
           \/ job[u].outcome.attempts = CONFIG.MAX_RETRIES

C5_Witness ==
  \E u, v \in Urls :
     /\ job[u].outcome.status = "success"
     /\ job[u].outcome.attempts >= 2
     /\ job[v].outcome.status = "error"
     /\ job[v].outcome.isRetryable = FALSE

\* C6: a job whose every attempt fails with a retryable error makes exactly
\* MAX_RETRIES attempts and yields an error Outcome with
\* attempts = MAX_RETRIES and retryable = true.
C6_ExhaustedRetries ==
  \A u \in Urls :
     (/\ Len(attemptLog[u]) >= 1
      /\ \A k \in 1..Len(attemptLog[u]) : attemptLog[u][k] = "NetErrFailed")
     =>
       /\ Len(attemptLog[u]) <= CONFIG.MAX_RETRIES
       /\ IF Len(attemptLog[u]) < CONFIG.MAX_RETRIES
          THEN job[u].pc \in {"backoff", "jitter", "checking"}
          ELSE /\ RunnerReturned(u)
               /\ job[u].outcome.status = "error"
               /\ job[u].outcome.attempts = CONFIG.MAX_RETRIES
               /\ job[u].outcome.isRetryable = TRUE

C6_Witness ==
  \E u \in Urls :
     /\ CONFIG.MAX_RETRIES >= 2
     /\ Len(attemptLog[u]) = CONFIG.MAX_RETRIES
     /\ \A k \in 1..Len(attemptLog[u]) : attemptLog[u][k] = "NetErrFailed"
     /\ job[u].outcome.status = "error"

\* C7: when attempt N fails with a non-retryable error the job makes no
\* further attempt and waits for no backoff: runAccessibilityCheck returns
\* an error Outcome with attempts = N and retryable = false in that step.
C7_NonRetryableStops ==
  \A u \in Urls :
     (Len(attemptLog[u]) >= 1 /\ Last(attemptLog[u]) = "InvalidSelector") =>
        /\ job[u].pc \in {"pacing", "done"}
        /\ job[u].outcome.status = "error"
        /\ job[u].outcome.attempts = Len(attemptLog[u])
        /\ job[u].outcome.isRetryable = FALSE

C7_Witness ==
  \E u, v \in Urls :
     /\ attemptLog[u] = <<"InvalidSelector">>
     /\ job[u].outcome.attempts = 1
     /\ attemptLog[v] = <<"NetErrFailed", "InvalidSelector">>
     /\ job[v].outcome.attempts = 2

\* C8: runAccessibilityCheck never raises past its own boundary: whatever
\* value the checker rejects with, the call resolves to an Outcome.
C8_RunnerNeverRaises ==
  \A u \in Urls : job[u].outcome.status # "rejected"

\* C9: every check attempt that opened a session handle, successful or
\* failed, has the handle registered in browserInstances before
\* runAccessibilityCheck returns.
C9_OpenedHandlesRegistered ==
  \A h \in opened : RunnerReturned(h.url) => h \in registered

\* C10: cleanup() calls close on every handle of the live set even when an
\* earlier close raised, and at the step in which it returns the live set
\* is empty.
C10_CleanupClosesAll ==
  [][\A c \in 1..Len(cleanups') :
        (/\ cleanups'[c].pc = "returned"
         /\ (c > Len(cleanups) \/ cleanups[c].pc # "returned"))
        => /\ LiveSet(browserInstances') = {}
           /\ \A h \in LiveSet(browserInstances) : closeCalls'[h] >= 1
           /\ \A h \in registered' : closeCalls'[h] >= 1]_vars

C10_Witness ==
  \E c \in 1..Len(cleanups) :
     /\ cleanups[c].pc = "returned"
     /\ LiveSet(browserInstances) = {}
     /\ cleanups[c].raisedAt >= 1
     /\ cleanups[c].idx > cleanups[c].raisedAt
     /\ Cardinality(registered) >= 2
     /\ \A h \in registered : closeCalls[h] >= 1

\* C11: no session handle has browser.close() called on it twice, however
\* the cleanup() of main and the cleanup() of a signal handler interleave.
C11_NoHandleClosedTwice ==
  \A h \in AllHandles : closeCalls[h] <= 1

\* C12: once a signal has been received, no step of the process starts a
\* queued unit, invokes the checker (first attempt or retry), or submits a
\* url to the limiter.
C12_NoStartAfterSignal ==
  [][signals >= 1 =>
       \A u \in Urls :
          /\ job'[u].pc = "checking" => job[u].pc = "checking"
          /\ job'[u].attemptNumber = job[u].attemptNumber
          /\ job'[u].pc = "unsubmitted" <=> job[u].pc = "unsubmitted"]_vars

\* The caller of the cleanup() that precedes the exit, per exit path: main
\* itself after the last batch, the catch handler of main(), or a signal
\* handler.
ExitPath ==
  IF mainPc = "done" THEN "main"
  ELSE IF mainPc = "rejected" THEN "fault"
  ELSE "signal"

\* C13: whenever the process has exited after running jobs, the cleanup()
\* of that exit path has returned and browserInstances is empty; the exit
\* of main after the report is written has status 0 and the exit of the
\* catch handler of main() has a non-zero status.
C13_CleanupBeforeExit ==
  ~Alive =>
     /\ LiveSet(browserInstances) = {}
     /\ \E c \in 1..Len(cleanups) :
           cleanups[c].pc = "returned" /\ cleanups[c].by = ExitPath
     /\ mainPc = "done" => exitStatus = <<0>>
     /\ mainPc = "rejected" => exitStatus # <<0>>
     /\ ExitPath = "signal" => exitStatus = <<0>>

C13_Witness ==
  /\ exitStatus = <<1>>
  /\ mainPc = "rejected"
  /\ Len(results) = Len(urls)
  /\ registered # {}
  /\ \A h \in registered : closeCalls[h] >= 1

\* The other two exit paths: main exits 0 after the report was written, and
\* a signal handler exits 0 while units are still in flight.
C13_NormalExit ==
  /\ exitStatus = <<0>>
  /\ mainPc = "done"
  /\ registered # {}

C13_SignalExit ==
  /\ exitStatus = <<0>>
  /\ mainPc = "awaitBatch"
  /\ registered # {}
  /\ \E u \in Urls : job[u].pc \in InFlight

\* C14: units are started in submission order.  Urls are submitted in
\* discovery order (the position in urls), so a started unit has every
\* earlier url started as well, the queue holds urls in increasing position,
\* and no step starts a unit while an earlier one stays queued.
C14_StartsInSubmissionOrder ==
  /\ \A u, v \in Urls : u < v /\ job[v].pc # "unsubmitted"
                           => job[u].pc # "unsubmitted"
  /\ \A u, v \in Urls : u < v /\ Started(v) => Started(u)
  /\ \A i, j \in 1..Len(queue) : i < j => queue[i] < queue[j]

C14_Witness ==
  /\ Len(urls) = 3
  /\ CONFIG.MAX_CONCURRENT_CHECKS = 1
  /\ job[1].pc = "done"
  /\ job[2].pc \in InFlight
  /\ queue = <<3>>

\* C15: with a limit of at least 1, if every started unit eventually
\* completes, every unit waiting in the limiter's queue is eventually
\* started.
C15_NoStarvation ==
  \A u \in 1..MaxUrls :
     (u <= Len(urls) /\ job[u].pc = "queued")
        ~> (u <= Len(urls) /\ Started(u))

C15_Witness ==
  /\ Len(urls) = 2
  /\ CONFIG.MAX_CONCURRENT_CHECKS = 1
  /\ job[1].pc = "done"
  /\ Len(attemptLog[1]) >= 2
  /\ Started(2)
  /\ results = <<>>

\* C16: when the work function of unit u raises, the step rejects the
\* promise of u and settles no other promise, decrements running exactly
\* once, and starts the head of the queue if there is one; no other unit is
\* touched, and every unit that completes resolves with its own value.
C16_FailureIsolated ==
  /\ [][\A u \in Urls :
          (settled[u] = Pending /\ settled'[u].status = "rejected")
          => /\ settled'[u].reason = u
             /\ \A v \in Urls \ {u} : settled'[v] = settled[v]
             /\ IF queue = <<>>
                THEN /\ running' = running - 1
                     /\ \A v \in Urls \ {u} : job'[v] = job[v]
                ELSE /\ running' = running
                     /\ queue' = Tail(queue)
                     /\ job[Head(queue)].pc = "queued"
                     /\ job'[Head(queue)].pc = "checking"
                     /\ \A v \in Urls \ {u, Head(queue)} : job'[v] = job[v]]_vars
  /\ [](\A v \in Urls :
          /\ settled[v].status = "fulfilled" => settled[v].value = v
          /\ settled[v] # Pending <=> job[v].pc = "done")
  /\ [](running = Cardinality({v \in Urls : job[v].pc = "checking"}))

C16_Witness ==
  /\ Len(urls) = 4
  /\ CONFIG.MAX_CONCURRENT_CHECKS = 2
  /\ settled[1].status = "fulfilled"
  /\ settled[2].status = "rejected"
  /\ settled[3].status = "fulfilled"
  /\ job[4].pc = "checking"
  /\ running = 1

\* The urls of the outcomes in main's results array, in array order.
ResultUrls == [k \in 1..Len(results) |-> results[k].url]

C18_BatchBarrier ==
  \A u, v \in Urls :
     BatchIndexOf(u) < BatchIndexOf(v) /\ job[v].pc # "unsubmitted"
        => /\ job[u].pc = "done"
           /\ settled[u] # Pending
           /\ \E k \in 1..Len(results) : results[k].url = u

C18_Witness ==
  /\ Len(urls) = 3
  /\ CONFIG.BATCH_SIZE = 2
  /\ CONFIG.MAX_CONCURRENT_CHECKS = 2
  /\ completed = <<2, 1>>
  /\ job[3].pc \in InFlight
  /\ batchIndex = 1

RECURSIVE Concat(_)
Concat(ss) == IF ss = <<>> THEN <<>> ELSE Head(ss) \o Concat(Tail(ss))

\* C19: for a list of n >= 1 urls and BATCH_SIZE B >= 1 the loop of main
\* forms ceil(n / B) consecutive batches whose concatenation is the list in
\* its order; every batch but the last has B urls and the last has between
\* 1 and B; while the loop runs, the batches formed so far are a prefix of
\* the list.
C19_BatchesPartitionUrls ==
  LET n == Len(urls)
      B == CONFIG.BATCH_SIZE
      m == Len(slices)
  IN /\ Concat(slices) = SubSeq(urls, 1, Len(Concat(slices)))
     /\ \A i \in 1..(m - 1) : Len(slices[i]) = B
     /\ \A i \in 1..m : Len(slices[i]) \in 1..B
     /\ mainPc = "afterLoop" =>
          /\ Concat(slices) = urls
          /\ m * B >= n
          /\ (m - 1) * B < n

C19_Witness ==
  /\ mainPc = "afterLoop"
  /\ Len(urls) = 7
  /\ CONFIG.BATCH_SIZE = 3
  /\ slices = << <<1, 2, 3>>, <<4, 5, 6>>, <<7>> >>

Range(seq) == {seq[k] : k \in 1..Len(seq)}

\* The url strings found in the documents getAllUrls extracts urls from:
\* every child sitemap that was fetched, and the root document.
Discovered ==
  UNION {Range(extractUrlsFromSitemap(collector.log[k])) :
           k \in 1..Len(collector.log)}

\* C20: the list returned by getAllUrls holds no url twice, also when a url
\* occurs in several child sitemaps (or several times in one document), and
\* its length is the number of distinct urls in the documents read.
C20_NoDuplicateUrls ==
  collector.pc = "returned" =>
     /\ \A i, j \in 1..Len(collector.result) :
           i # j => collector.result[i] # collector.result[j]
     /\ Range(collector.result) = Discovered
     /\ Len(collector.result) = Cardinality(Discovered)

C20_Witness ==
  /\ collector.pc = "returned"
  /\ Len(collector.log) = 3
  /\ collector.log[2] = [kind |-> "urlset", locs |-> <<1, 2, 3>>]
  /\ collector.log[3] = [kind |-> "urlset", locs |-> <<3, 4, 5>>]
  /\ Len(collector.result) = 5

\* The lists getAllUrls extracts urls from, concatenated in the order of
\* the source: the children in index order, then the root document.
RECURSIVE ExtractedFrom(_, _)
ExtractedFrom(log, k) ==
  IF k > Len(log) THEN <<>>
  ELSE extractUrlsFromSitemap(log[k]) \o ExtractedFrom(log, k + 1)

ExtractedInOrder ==
  IF collector.log = <<>> THEN <<>>
  ELSE ExtractedFrom(collector.log, 2)
         \o extractUrlsFromSitemap(collector.log[1])

\* seq without the occurrences of an element that follow its first one.
FirstOccurrences(seq) ==
  LET keep == {k \in 1..Len(seq) : \A j \in 1..(k - 1) : seq[j] # seq[k]}
      F[k \in 0..Len(seq)] ==
        IF k = 0 THEN <<>>
        ELSE IF k \in keep THEN Append(F[k - 1], seq[k]) ELSE F[k - 1]
  IN F[Len(seq)]

\* C21: the list returned by getAllUrls holds the urls in order of first
\* discovery: children in index order, document order within a child, each
\* url at its first occurrence, the urls of the root document last.
C21_FirstDiscoveryOrder ==
  collector.pc = "returned" =>
     collector.result = FirstOccurrences(ExtractedInOrder)

C21_Witness ==
  /\ collector.pc = "returned"
  /\ Len(collector.log) = 3
  /\ collector.log[2] = [kind |-> "urlset", locs |-> <<2, 1, 2>>]
  /\ collector.log[3] = [kind |-> "urlset", locs |-> <<3, 1, 0>>]
  /\ collector.result = <<2, 1, 3>>
  /\ urls = <<2, 1, 3>>

\* C22: a child sitemap for which fetchXML returned null is skipped: every
\* sitemap listed in the index is still fetched, and the urls of every child
\* that was fetched are in the returned list.
C22_FailedChildSkipped ==
  (collector.pc = "returned" /\ collector.log[1] # NullDoc) =>
     /\ Len(collector.log) = 1 + Len(getSitemapsFromIndex(collector.log[1]))
     /\ \A k \in 2..Len(collector.log) :
           Range(extractUrlsFromSitemap(collector.log[k]))
              \subseteq Range(collector.result)

C22_Witness ==
  /\ collector.pc = "returned"
  /\ Len(collector.log) = 3
  /\ collector.log[2] = NullDoc
  /\ collector.log[3] = [kind |-> "urlset", locs |-> <<4, 5>>]
  /\ collector.result = <<4, 5>>
  /\ Alive

\* main treated the outcome of the collection as fatal: it exited 1 before
\* the batch loop.
FatalCollectionFailure == exitStatus = <<1>> /\ mainPc \in {"verifying", "getAllUrls"}

\* C23 (as claimed): getAllUrls returns an empty list only if the fetch of
\* the root document failed; when the root fetch succeeded the result is
\* non-empty or the run is not treated as a fatal collection failure.
C23_EmptyOnlyIfRootFails ==
  (collector.pc = "returned" /\ collector.log[1] # NullDoc) =>
     \/ collector.result # <<>>
     \/ ~FatalCollectionFailure

\* C23 (amended): getAllUrls returns an empty list exactly when the root
\* fetch failed or no url was extracted from any document read; main treats
\* every empty list as fatal (exit 1) and goes on to the batch loop with
\* every non-empty list.
C23_EmptyIffNothingDiscovered ==
  collector.pc = "returned" =>
     /\ collector.result = <<>> <=>
           (collector.log[1] = NullDoc \/ Discovered = {})
     /\ collector.log[1] = NullDoc => Len(collector.log) = 1
     /\ IF collector.result = <<>>
        THEN FatalCollectionFailure /\ urls = <<>>
        ELSE Alive /\ mainPc = "start" /\ urls = collector.result

C23_Witness ==
  /\ collector.pc = "returned"
  /\ Len(collector.log) = 3
  /\ collector.log[1].kind = "sitemapindex"
  /\ collector.log[2] = NullDoc
  /\ collector.log[3] = [kind |-> "urlset", locs |-> <<0>>]
  /\ collector.result = <<>>
  /\ exitStatus = <<1>>

\* Number of sitemaps listed by the child documents that are themselves
\* sitemap indexes, over the children k..Len(log) of the fetch history.
RECURSIVE NestedSitemaps(_, _)
NestedSitemaps(log, k) ==
  IF k > Len(log) THEN 0
  ELSE Len(getSitemapsFromIndex(log[k])) + NestedSitemaps(log, k + 1)

\* C24: a sitemap index is resolved recursively, so that the urls of a
\* sitemap reachable only through a nested index are collected: when
\* getAllUrls returns, every sitemap listed by a child that is itself an
\* index has been fetched too.
C24_NestedIndexResolved ==
  (collector.pc = "returned" /\ collector.log # <<>>) =>
     Len(collector.log) >= 1 + Len(collector.sitemaps)
                             + NestedSitemaps(collector.log, 2)

\* The collection failed: the sitemap url did not answer axios.head, or
\* getAllUrls returned an empty list (root not fetched or not parsed, or no
\* url discovered).
CollectionFailed ==
  \/ mainPc = "verifying" /\ ~Alive
  \/ collector.pc = "returned" /\ collector.result = <<>>

\* C25: when the collection fails the process has exited with status 1
\* before the batch loop: no url was submitted to the limiter, no checker
\* was invoked, and no step of the collector or of the job-running part can
\* be taken any more.
C25_CollectionFailureAborts ==
  CollectionFailed =>
     /\ exitStatus = <<1>>
     /\ mainPc \in {"verifying", "getAllUrls"}
     /\ urls = <<>> /\ job = <<>> /\ attemptLog = <<>>
     /\ queue = <<>> /\ running = 0 /\ slices = <<>>
     /\ ~ENABLED Next
     /\ ~ENABLED CollectNext

C25_Witness ==
  /\ collector.pc = "returned"
  /\ collector.log = <<NullDoc>>
  /\ collector.attempt = FetchRetries
  /\ exitStatus = <<1>>

\* The other failures: the sitemap url does not answer, and a root index
\* whose children yield no url.
C25_HeadFailed ==
  mainPc = "verifying" /\ exitStatus = <<1>>

C25_NothingDiscovered ==
  /\ collector.pc = "returned"
  /\ Len(collector.log) = 3
  /\ collector.result = <<>>
  /\ exitStatus = <<1>>

\* runAccessibilityCheck returned an error Outcome for url u: the error was
\* not retryable or the attempts were used up.
PermanentError(u) == job[u].outcome.status = "error"

\* C26: a job that ends in a permanent error aborts neither its siblings
\* nor the run: the process stays alive when the error Outcome is returned,
\* every url of the list is then still checked and gets its Outcome, main
\* reaches the writing of the report with all of them, and the exit after
\* the report is written has status 0.
C26_PermanentErrorDoesNotAbort ==
  /\ [][\A u \in Urls :
          (~PermanentError(u) /\ PermanentError(u)') => exitStatus' = NoExit]_vars
  /\ \A u \in 1..MaxUrls :
        (u <= Len(urls) /\ PermanentError(u))
           ~> /\ mainPc \in {"writing", "done", "rejected"}
              /\ \A v \in Urls :
                    /\ Len(attemptLog[v]) >= 1
                    /\ \E k \in 1..Len(reported) : reported[k].url = v
  /\ [](mainPc = "done" => exitStatus = <<0>>)

C26_Witness ==
  /\ Len(urls) = 2
  /\ CONFIG.BATCH_SIZE = 1
  /\ mainPc = "done"
  /\ exitStatus = <<0>>
  /\ Len(reported) = 2
  /\ reported[1] = ErrorOutcome(1, "InvalidSelector", 1, FALSE)
  /\ reported[2].status = "success"

WellFormed(o) ==
  /\ o.status \in {"success", "error"}
  /\ o.status = "error" =>
        /\ o.issues = <<>>
        /\ "error" \in DOMAIN o
        /\ "isRetryable" \in DOMAIN o
        /\ o.documentTitle = UrlLabel(o.url)
  /\ o.status = "success" =>
        /\ "error" \notin DOMAIN o
        /\ o.documentTitle \in {TitleLabel(o.url), UrlLabel(o.url)}

\* C27: every Outcome of the run-wide list is well-formed: its status is
\* success or error; an error Outcome has no issues, an error message, a
\* retryable flag and the url as title; a success Outcome has no error
\* message and the document title, or else the url, as title.
C27_OutcomesWellFormed ==
  \A k \in 1..Len(results) : WellFormed(results[k])

\* The records returned by runAccessibilityCheck itself are well-formed.
C27_RunnerOutcomesWellFormed ==
  \A u \in Urls : RunnerReturned(u) => WellFormed(job[u].outcome)

\* ------------------------------------------- the argument, on its own
\* The script is started with an argument; processSitemapUrl runs while the
\* module loads.  The url it printed is then given to a second start of the
\* script.  Nothing else of the program runs here.
argIdleVars == <<CONFIG, urls, running, queue, job, settled, results,
                 batchIndex, mainPc, browserInstances, registered, closeCalls,
                 cleanups, reported, signals, attemptLog, completed, slices,
                 pauses, collector>>

ArgInit ==
  /\ CONFIG = [MAX_CONCURRENT_CHECKS |-> 1, BATCH_SIZE |-> 1, MAX_RETRIES |-> 1,
               INITIAL_RETRY_DELAY |-> DefaultInitialRetryDelay,
               RETRY_MULTIPLIER |-> DefaultRetryMultiplier,
               DELAY_BETWEEN_REQUESTS |-> DefaultDelayBetweenRequests]
  /\ urls = <<>>
  /\ running = 0
  /\ queue = <<>>
  /\ job = <<>>
  /\ settled = <<>>
  /\ results = <<>>
  /\ batchIndex = 0
  /\ mainPc = "none"
  /\ browserInstances = <<>>
  /\ registered = {}
  /\ closeCalls = [h \in {} |-> 0]
  /\ cleanups = <<>>
  /\ reported = <<>>
  /\ exitStatus = NoExit
  /\ signals = 0
  /\ attemptLog = <<>>
  /\ completed = <<>>
  /\ slices = <<>>
  /\ pauses = <<>>
  /\ collector = CollectorOff
  /\ sitemapUrl \in {[pc |-> "args", input |-> a, url |-> <<>>, again |-> <<>>] :
                       a \in Arguments}

\* const sitemapUrl = processSitemapUrl(inputUrl): a falsy argument prints
\* the usage and exits with status 1.
ProcessArgument ==
  /\ Alive
  /\ sitemapUrl.pc = "args"
  /\ IF sitemapUrl.input = <<>>
     THEN /\ exitStatus' = <<1>>
          /\ sitemapUrl' = [sitemapUrl EXCEPT !.pc = "usage"]
     ELSE /\ sitemapUrl' = [sitemapUrl EXCEPT
                              !.pc = "url",
                              !.url = processSitemapUrl(sitemapUrl.input)]
          /\ UNCHANGED exitStatus
  /\ UNCHANGED argIdleVars

\* The script started again with the url of the first start.
ProcessAgain ==
  /\ Alive
  /\ sitemapUrl.pc = "url"
  /\ sitemapUrl' = [sitemapUrl EXCEPT
                      !.pc = "again",
                      !.again = processSitemapUrl(sitemapUrl.url)]
  /\ UNCHANGED exitStatus
  /\ UNCHANGED argIdleVars

ArgNext == ProcessArgument \/ ProcessAgain

ArgSpec == ArgInit /\ [][ArgNext]_vars

\* C28: processSitemapUrl turns a non-empty argument into a sitemap url: the
\* argument is trimmed; https:// is put in front unless it starts with
\* http:// or https://; a url ending in .xml is the result as it is; any
\* other loses one trailing slash, if it has one, and gets
\* /sitemap_index.xml appended.  Applied to its own result the function
\* returns that result.
C28_SitemapUrl ==
  sitemapUrl.pc \in {"url", "again"} =>
    LET input == sitemapUrl.input
        url == sitemapUrl.url
        \* t is input without its leading and trailing white space
        IsTrimOf(t) ==
          \E a, b \in 0..Len(input) :
            /\ a + b <= Len(input)
            /\ \A j \in 1..a : input[j] \in WhiteSpace
            /\ \A j \in 1..b : input[Len(input) + 1 - j] \in WhiteSpace
            /\ t = SubSeq(input, a + 1, Len(input) - b)
            /\ (t # <<>> => t[1] \notin WhiteSpace /\ t[Len(t)] \notin WhiteSpace)
        Maps(t) ==
          LET full == IF startsWith(t, Http) \/ startsWith(t, Https)
                      THEN t ELSE Https \o t
          IN  IF endsWith(full, DotXml)
              THEN url = full
              ELSE /\ endsWith(url, SitemapIndexPath)
                   /\ LET base == SubSeq(url, 1, Len(url) - Len(SitemapIndexPath))
                      IN  \/ full = base /\ ~endsWith(full, <<"/">>)
                          \/ full = base \o <<"/">>
    IN  /\ \E k \in 0..Len(input) : \E m \in k..Len(input) :
             /\ IsTrimOf(SubSeq(input, k + 1, m))
             /\ Maps(SubSeq(input, k + 1, m))
        /\ sitemapUrl.pc = "again" => sitemapUrl.again = url

\* An argument with a blank in front, no protocol, two trailing slashes and
\* a tab behind: " a.co//\t" became https://a.co//sitemap_index.xml, twice.
C28_Witness ==
  /\ sitemapUrl.pc = "again"
  /\ sitemapUrl.input = <<" ","a",".","c","o","/","/","\t">>
  /\ sitemapUrl.url = Https \o <<"a",".","c","o","/">> \o SitemapIndexPath
  /\ sitemapUrl.again = sitemapUrl.url

\* An argument ending in .xml came through with only the protocol added.
C28_XmlUnchanged ==
  /\ sitemapUrl.pc = "again"
  /\ sitemapUrl.input = <<"a",".","c","o","/","s",".","x","m","l">>
  /\ sitemapUrl.url = Https \o sitemapUrl.input

\* ------------------------------------------------- retries, with timing
\* The whole run for one or two urls checked one at a time, under
\* configurations that differ in MAX_RETRIES and in the two retry delay
\* settings.  parseInt(..) || 5000 and parseFloat(..) || 2 never give 0;
\* a negative PA11Y_RETRY_DELAY and a multiplier below 1 are accepted.
InitialDelays == {-1, 1, DefaultInitialRetryDelay}

Multipliers == {[num |-> 1, den |-> 2], [num |-> 1, den |-> 1],
                [num |-> 3, den |-> 2], DefaultRetryMultiplier}

RetryHandles ==
  {Handle(u, n) : u \in 1..MaxRetryUrls, n \in 1..MaxRetryAttempts}

RetryInit ==
  /\ CONFIG \in [MAX_CONCURRENT_CHECKS : {1},
                 BATCH_SIZE : {1},
                 MAX_RETRIES : 1..MaxRetryAttempts,
                 INITIAL_RETRY_DELAY : InitialDelays,
                 RETRY_MULTIPLIER : Multipliers,
                 DELAY_BETWEEN_REQUESTS : {DefaultDelayBetweenRequests}]
  /\ \E n \in 1..MaxRetryUrls : urls = [k \in 1..n |-> k]
  /\ running = 0
  /\ queue = <<>>
  /\ job = [u \in 1..Len(urls) |->
              [pc |-> "unsubmitted", attemptNumber |-> 0, outcome |-> Pending,
               wait |-> NoWait, backoffs |-> <<>>]]
  /\ settled = [u \in 1..Len(urls) |-> Pending]
  /\ results = <<>>
  /\ batchIndex = 0
  /\ mainPc = "start"
  /\ browserInstances = <<>>
  /\ registered = {}
  /\ closeCalls = [h \in RetryHandles |-> 0]
  /\ cleanups = <<>>
  /\ reported = <<>>
  /\ exitStatus = NoExit
  /\ signals = 0
  /\ attemptLog = [u \in 1..Len(urls) |-> <<>>]
  /\ completed = <<>>
  /\ slices = <<>>
  /\ pauses = <<>>
  /\ collector = CollectorOff
  /\ sitemapUrl = SitemapUrlOff

RetrySpec == RetryInit /\ [][NextNoSignal]_vars

\* Fractions of milliseconds compared.
MsEq(a, b) == a.num * b.den = b.num * a.den
MsLeq(a, b) == a.num * b.den <= b.num * a.den
MsTimes(a, m) == [num |-> a.num * m.num, den |-> a.den * m.den]

\* C29: attempt 1 of a url starts with no wait before it.  Attempt N+1
\* starts only when a jitter wait of at least 0 and less than 2000 ms has
\* elapsed, and that wait is entered only when the backoff wait after the
\* retryable failure of attempt N < MAX_RETRIES has elapsed; the backoff
\* wait after attempt 1 is INITIAL_RETRY_DELAY and each later one is
\* RETRY_MULTIPLIER times the one before, i.e. INITIAL_RETRY_DELAY *
\* RETRY_MULTIPLIER^(N-1).
C29_BackoffThenJitter ==
  [][\A u \in 1..Len(urls) :
       LET a == job[u]
           b == job'[u]
       IN  /\ (b.pc = "checking" /\ a.pc # "checking") =>
                IF b.attemptNumber = 1
                THEN /\ a.pc \in {"unsubmitted", "queued"}
                     /\ a.wait.kind = "none"
                     /\ b.backoffs = <<>>
                ELSE /\ a.pc = "jitter"
                     /\ a.attemptNumber = b.attemptNumber
                     /\ a.wait.kind = "jitter"
                     /\ MsLeq(Ms(0), a.wait.ms)
                     /\ ~MsLeq(Ms(2000), a.wait.ms)
           /\ (b.pc = "jitter" /\ a.pc # "jitter") =>
                /\ a.pc = "backoff"
                /\ b.attemptNumber = a.attemptNumber + 1
                /\ a.attemptNumber < CONFIG.MAX_RETRIES
                /\ isRetryableError(Last(attemptLog[u]))
                /\ a.wait.kind = "backoff"
                /\ Len(a.backoffs) = a.attemptNumber
                /\ a.wait.ms = Last(a.backoffs)
                /\ MsEq(a.backoffs[1], Ms(CONFIG.INITIAL_RETRY_DELAY))
                /\ \A k \in 1..(Len(a.backoffs) - 1) :
                     MsEq(a.backoffs[k + 1],
                          MsTimes(a.backoffs[k], CONFIG.RETRY_MULTIPLIER))
           /\ (b.pc = "backoff" /\ a.pc # "backoff") => a.pc = "checking"
    ]_vars

\* Attempt 3 of a url runs after waits of 5000 ms and 5000 * 1.5 ms, each
\* followed by a jitter.
C29_Witness ==
  \E u \in 1..Len(urls) :
    /\ job[u].pc = "checking"
    /\ job[u].attemptNumber = 3
    /\ CONFIG.INITIAL_RETRY_DELAY = 5000
    /\ CONFIG.RETRY_MULTIPLIER = [num |-> 3, den |-> 2]
    /\ job[u].backoffs = <<[num |-> 5000, den |-> 1], [num |-> 15000, den |-> 2]>>

\* A jitter close to 2000 ms is being awaited.
C29_LongJitter ==
  \E u \in 1..Len(urls) :
    /\ job[u].pc = "jitter"
    /\ MsLeq(Ms(1999), job[u].wait.ms)

\* C30: with RETRY_MULTIPLIER >= 1 and INITIAL_RETRY_DELAY >= 0 the backoff
\* waits of a url never decrease from one attempt to the next.
C30_BackoffNonDecreasing ==
  (/\ CONFIG.INITIAL_RETRY_DELAY >= 0
   /\ MsLeq(Ms(1), CONFIG.RETRY_MULTIPLIER)) =>
    \A u \in 1..Len(urls) :
      \A k \in 1..(Len(job[u].backoffs) - 1) :
        MsLeq(job[u].backoffs[k], job[u].backoffs[k + 1])

\* Three backoff waits under a multiplier of 1.5, each longer than the one
\* before.
C30_Witness ==
  /\ CONFIG.INITIAL_RETRY_DELAY = 1
  /\ CONFIG.RETRY_MULTIPLIER = [num |-> 3, den |-> 2]
  /\ \E u \in 1..Len(urls) :
       /\ Len(job[u].backoffs) = 3
       /\ \A k \in 1..2 : ~MsLeq(job[u].backoffs[k + 1], job[u].backoffs[k])

\* Under a multiplier below 1, or a negative initial delay, the waits do
\* decrease.
C30_OutsidePrecondition ==
  \E u \in 1..Len(urls) :
    /\ Len(job[u].backoffs) >= 2
    /\ ~MsLeq(job[u].backoffs[1], job[u].backoffs[2])

\* C31: the unit of a url returns its result to the batch only when the
\* delay(DELAY_BETWEEN_REQUESTS) that follows its check has elapsed, whether
\* the result is a success or an error Outcome.
C31_PacingBeforeDelivery ==
  [][\A u \in 1..Len(urls) :
       (job'[u].pc = "done" /\ job[u].pc # "done") =>
         /\ job[u].pc = "pacing"
         /\ job[u].wait = [kind |-> "pacing",
                           ms |-> Ms(CONFIG.DELAY_BETWEEN_REQUESTS)]
    ]_vars

\* The same for the results runAccessibilityCheck returned: a unit whose
\* runner returned an Outcome delivers it after the pacing delay.
C31_RunnerOutcomesPaced ==
  [][\A u \in 1..Len(urls) :
       (job'[u].pc = "done" /\ job[u].pc # "done" /\ RunnerReturned(u)) =>
         /\ job[u].pc = "pacing"
         /\ job[u].wait = [kind |-> "pacing",
                           ms |-> Ms(CONFIG.DELAY_BETWEEN_REQUESTS)]
         /\ settled'[u] = job[u].outcome
    ]_vars

\* An error Outcome and a success Outcome were each delivered after pacing.
C31_Witness ==
  /\ Len(urls) >= 2
  /\ job[1].pc = "done" /\ settled[1].status = "error"
  /\ RunnerReturned(1)
  /\ job[2].pc = "done" /\ settled[2].status = "success"

\* C32: main awaits one delay of 2 * DELAY_BETWEEN_REQUESTS after each batch
\* but the last: the delay after batch k is awaited once every unit of
\* batches 1..k has returned, batch k+1 is submitted only after it, and the
\* number of delays never reaches the number of batches.
C32_OneDelayBetweenBatches ==
  /\ \A k \in 1..Len(pauses) : pauses[k] = Ms(2 * CONFIG.DELAY_BETWEEN_REQUESTS)
  /\ Len(slices) <= Batches
  /\ Len(pauses) < Batches
  /\ slices # <<>> =>
       IF mainPc = "interBatchDelay"
       THEN /\ Len(pauses) = Len(slices)
            /\ \A k \in 1..Len(slices) : \A j \in 1..Len(slices[k]) :
                 job[slices[k][j]].pc = "done"
       ELSE Len(pauses) = Len(slices) - 1

\* Three batches ran, two delays between them, and the report was written.
C32_Witness ==
  /\ Len(slices) = 3
  /\ Len(pauses) = 2
  /\ mainPc = "done"
  /\ exitStatus = <<0>>

\* C33: fetchXML makes at most 3 attempts for a document.  After the k-th
\* failed attempt (k = 1, 2), whether the transport or the parser failed, it
\* waits 1000 * k ms and then makes attempt k+1.  It returns the parsed
\* document of the first attempt that succeeds, and returns null, without
\* raising, when the third attempt fails.
C33_FetchRetries ==
  [][LET a == collector
         b == collector'
         returned == Len(b.log) = Len(a.log) + 1
     IN  /\ a.attempt <= 2 /\ b.attempt <= 2
         /\ (a.pc = "fetching" /\ a # b) =>
              \/ /\ returned
                 /\ Last(b.log) # NullDoc
              \/ /\ returned
                 /\ Last(b.log) = NullDoc
                 /\ a.attempt = 2
              \/ /\ ~returned
                 /\ a.attempt < 2
                 /\ b.pc = "retryDelay"
                 /\ b.failure \in {"transport", "parse"}
                 /\ b.wait = Ms(1000 * (a.attempt + 1))
                 /\ b.attempt = a.attempt /\ b.target = a.target
         /\ (a.pc = "retryDelay" /\ a # b) =>
              /\ b.pc = "fetching"
              /\ b.attempt = a.attempt + 1
              /\ b.target = a.target
              /\ b.log = a.log
    ]_vars

\* The second attempt for a child sitemap failed in the parser and fetchXML
\* waits 2000 ms before the third.
C33_Witness ==
  /\ collector.pc = "retryDelay"
  /\ collector.target = 1
  /\ collector.attempt = 1
  /\ collector.failure = "parse"
  /\ collector.wait = Ms(2000)

\* The root was fetched at the first attempt; for the first child all three
\* attempts failed and null came back, and the second child is being fetched.
C33_NullAfterThree ==
  /\ Len(collector.log) = 2
  /\ collector.log[1] # NullDoc
  /\ collector.log[2] = NullDoc
  /\ collector.pc = "fetching"
  /\ collector.target = 2

\* A document came back from the third attempt.
C33_ThirdAttemptSucceeds ==
  /\ collector.pc = "returned"
  /\ collector.attempt = 2
  /\ collector.log # <<>>
  /\ Last(collector.log) # NullDoc

\* C34: a url whose check has started and whose Outcome is not yet
\* delivered holds one slot, through its attempts, backoff waits, jitter
\* waits and the trailing request delay: these urls are as many as
\* `running` and never more than the limit, and while the limiter is full a
\* queued unit starts only in a step in which a running unit delivers its
\* Outcome, never when one enters or leaves a wait.
C34_SlotHeldThroughRetries ==
  /\ [](LET holding == {u \in Urls : Started(u) /\ settled[u] = Pending}
        IN  /\ Cardinality(holding) = running
            /\ Cardinality(holding) <= CONFIG.MAX_CONCURRENT_CHECKS
            /\ \A u \in Urls :
                 job[u].pc \in {"checking", "backoff", "jitter", "pacing"}
                 => u \in holding)
  /\ [][\A v \in Urls :
          (job[v].pc = "queued" /\ job'[v].pc # "queued"
           /\ running = CONFIG.MAX_CONCURRENT_CHECKS)
          => \E u \in Urls \ {v} :
               /\ Started(u)
               /\ settled[u] = Pending
               /\ settled'[u] # Pending
               /\ job'[u].pc = "done"]_vars

\* With one slot, url 1 is in its second attempt's jitter wait after a
\* backoff, and url 2 of the same batch is still queued.
C34_Witness ==
  /\ Len(urls) >= 2
  /\ CONFIG.MAX_CONCURRENT_CHECKS = 1
  /\ job[1].pc = "jitter"
  /\ Len(job[1].backoffs) = 1
  /\ job[2].pc = "queued"
  /\ running = 1

\* C35: with a limit of at least 1, whenever the limiter is at rest between
\* two of its operations, a unit waits in the queue only if `running` equals
\* the limit, and `running` is never negative.
C35_WorkConserving ==
  /\ running >= 0
  /\ Len(queue) > 0 => running = CONFIG.MAX_CONCURRENT_CHECKS

\* Two slots are taken and a unit waits, after an earlier unit returned and
\* its slot went to the unit that waited then.
C35_Witness ==
  /\ CONFIG.MAX_CONCURRENT_CHECKS = 2
  /\ running = 2
  /\ Len(queue) > 0
  /\ \E u \in Urls : job[u].pc = "done"

\* C36: at the step in which a cleanup() clears browserInstances, every
\* handle in the set lies at a position the iterator of that cleanup() has
\* visited and has had close() called on it, including the handles that
\* jobs added while the cleanup() was waiting for a close() to settle.
C36_ClearedHandlesVisited ==
  [][\A c \in 1..Len(cleanups) :
        (cleanups[c].pc # "returned" /\ cleanups'[c].pc = "returned")
        => \A k \in 1..Len(browserInstances) :
              browserInstances[k] # Empty
              => /\ k <= cleanups[c].idx
                 /\ closeCalls[browserInstances[k]] >= 1]_vars

\* The cleanup() of a signal handler returned after visiting a position
\* that did not exist when it was called: the handle there was added while
\* it waited for a close().
C36_Witness ==
  \E c \in 1..Len(cleanups) :
     /\ cleanups[c].by = "signal"
     /\ cleanups[c].pc = "returned"
     /\ cleanups[c].size >= 1
     /\ cleanups[c].idx > cleanups[c].size
     /\ \A h \in registered : closeCalls[h] >= 1

\* C37: when the process has exited after a signal was received during the
\* run, its exit status is 0, a cleanup() called by a signal handler has
\* returned, and the report was neither generated nor written.
C37_SignalExitsWithoutReport ==
  (signals >= 1 /\ ~Alive) =>
     /\ exitStatus = <<0>>
     /\ \E c \in 1..Len(cleanups) :
           cleanups[c].by = "signal" /\ cleanups[c].pc = "returned"
     /\ reported = <<>>
     /\ mainPc \notin {"writing", "done", "rejected"}

\* The exit made by a signal handler itself: status 0 after its cleanup(),
\* the report not written.
C37_HandlerExit ==
  (~Alive /\ ExitPath = "signal") =>
     /\ signals >= 1
     /\ exitStatus = <<0>>
     /\ \E c \in 1..Len(cleanups) :
           cleanups[c].by = "signal" /\ cleanups[c].pc = "returned"
     /\ mainPc # "done"

\* A signal was received, main went on, wrote the report and exited.
C37_ReportAfterSignal ==
  /\ signals >= 1
  /\ mainPc = "done"
  /\ exitStatus = <<0>>
  /\ Len(reported) = Len(urls)

\* A signal was received and the process exited with status 1.
C37_FaultAfterSignal ==
  /\ signals >= 1
  /\ exitStatus = <<1>>

\* -------------------------------------- the limit, from the environment
\* MAX_CONCURRENT_CHECKS: parseInt(process.env.PA11Y_MAX_CONCURRENT) || 1.
\* The variable is unset, holds text that is no number, or holds an integer.
EnvValues ==
  {[kind |-> "unset", n |-> 0], [kind |-> "text", n |-> 0]} \cup
  {[kind |-> "int", n |-> n] : n \in (0 - MaxNegativeLimit)..MaxLimit}

\* parseInt of an environment value: NaN for undefined and for text.
parseInt(v) == [nan |-> v.kind # "int", n |-> v.n]

orDefaultUnlessPositive(p, d) == IF p.nan \/ p.n <= 0 THEN d ELSE p.n

\* p || d: NaN and 0 are falsy, every other number is truthy.
orDefault(p, d) == IF p.nan \/ p.n = 0 THEN d ELSE p.n

\* The run of Spec for at most LiveMaxUrls urls, the limit read from the
\* environment; CONFIG keeps the value it was read from.
EnvInit ==
  /\ CONFIG \in {[MAX_CONCURRENT_CHECKS |-> orDefault(parseInt(v), 1),
                  BATCH_SIZE |-> b,
                  MAX_RETRIES |-> r,
                  INITIAL_RETRY_DELAY |-> DefaultInitialRetryDelay,
                  RETRY_MULTIPLIER |-> DefaultRetryMultiplier,
                  DELAY_BETWEEN_REQUESTS |-> DefaultDelayBetweenRequests,
                  PA11Y_MAX_CONCURRENT |-> v] :
                   v \in EnvValues, b \in 1..MaxBatch,
                   r \in 1..MaxRetriesBound}
  /\ \E n \in 1..LiveMaxUrls : urls = [k \in 1..n |-> k]
  /\ running = 0
  /\ queue = <<>>
  /\ job = [u \in 1..Len(urls) |->
              [pc |-> "unsubmitted", attemptNumber |-> 0, outcome |-> Pending,
               wait |-> NoWait, backoffs |-> <<>>]]
  /\ settled = [u \in 1..Len(urls) |-> Pending]
  /\ results = <<>>
  /\ batchIndex = 0
  /\ mainPc = "start"
  /\ browserInstances = <<>>
  /\ registered = {}
  /\ closeCalls = [h \in AllHandles |-> 0]
  /\ cleanups = <<>>
  /\ reported = <<>>
  /\ exitStatus = NoExit
  /\ signals = 0
  /\ attemptLog = [u \in 1..Len(urls) |-> <<>>]
  /\ completed = <<>>
  /\ slices = <<>>
  /\ pauses = <<>>
  /\ collector = CollectorOff
  /\ sitemapUrl = SitemapUrlOff

EnvSpec == EnvInit /\ [][Next]_vars

\* C38: an unset, non-numeric or zero PA11Y_MAX_CONCURRENT gives the limit
\* 1; a negative one is taken as the limit, and then no submitted unit is
\* ever started: the urls of the first batch stay queued, main stays at
\* the first batch and no Outcome exists.
C38_NegativeLimitNeverStarts ==
  LET v == CONFIG.PA11Y_MAX_CONCURRENT
  IN  /\ (v.kind \in {"unset", "text"} \/ v.n = 0)
           => CONFIG.MAX_CONCURRENT_CHECKS = 1
      /\ (v.kind = "int" /\ v.n < 0) =>
           /\ CONFIG.MAX_CONCURRENT_CHECKS = v.n
           /\ running = 0
           /\ \A u \in Urls :
                /\ ~Started(u)
                /\ settled[u] = Pending
                /\ job[u].outcome = Pending
           /\ mainPc \in {"start", "awaitBatch"}
           /\ batchIndex = 0
           /\ results = <<>>
           /\ reported = <<>>

\* With PA11Y_MAX_CONCURRENT = -1 both urls of the first batch are queued,
\* nothing runs and main waits for the batch.
C38_Witness ==
  /\ CONFIG.PA11Y_MAX_CONCURRENT = [kind |-> "int", n |-> 0 - 1]
  /\ mainPc = "awaitBatch"
  /\ queue = <<1, 2>>
  /\ running = 0
  /\ Alive

\* With PA11Y_MAX_CONCURRENT = 0 the limit is 1 and the run completes.
C38_ZeroFallsBack ==
  /\ CONFIG.PA11Y_MAX_CONCURRENT = [kind |-> "int", n |-> 0]
  /\ mainPc = "done"

====
